---- MODULE Spec2Model ----
(***************************************************************************)
(* News Town: the coordination substrate (event log, task queue, memory,   *)
(* human prompts, articles), the agent runtime and the Chief orchestrator. *)
(* A worker's database calls are atomic steps, and the others can run      *)
(* between any two of them.  A phase of the Chief's sweep (one query and   *)
(* the loop over its rows) is one step; the recovery phase resets its rows *)
(* one statement at a time.                                                *)
(*                                                                         *)
(* Time is kept as the code reads it: created_at is a logical clock that   *)
(* advances with every insert, started_at is "null", "fresh" (younger than *)
(* the 30 minute lease) or "stalled", completed_at is "null" or "recent"   *)
(* (younger than the one hour window of process_reviews).                  *)
(* Scores and similarities are in hundredths.                              *)
(***************************************************************************)
EXTENDS Integers, Sequences, FiniteSets, TLC

VARIABLES
    events,     \* story_events, in append order
    tasks,      \* story_tasks, task id = index
    prompts,    \* human_prompts, prompt id = index
    memory,     \* story_memory rows
    articles,   \* articles rows, article id = index
    clock,      \* now(), advancing with every insert
    agent,      \* per worker: its position in run/process_task, its locals,
                \* _running and the status its heartbeats write
    chief,      \* the Chief's position in its sweep and the rows it fetched
    expired     \* how many leases have run out so far

vars == <<events, tasks, prompts, memory, articles, clock, agent, chief, expired>>

---------------------------------------------------------------------------
(* Bounds of the model *)

MaxStories == 2
MaxDetections == 1
MaxPrompts == 1
MaxResearchTasks == 2
MaxRepeats == 2
MaxFailures == 1
NEmbeddings == 4
MaxExpiries == 1
MaxScans == 3
MaxPipelines == 1
MaxQueue == 3
MaxArticles == 2
MaxEvents == 3          \* events appended to the bare event store
MaxTicks == 2           \* advances of the database clock in that store

(* Program constants *)

MinNewsworthiness == 60
MaxRevisions == 3
DedupThreshold == 85
ScoutThreshold == 60
QueryLimit == 10
PromptPriority == 10
DraftPriority == 5
ReviewPriority == 6
EditPriority == 7
PublishPriority == 8

Stories == 1..MaxStories

Reporters == {"r1", "r2"}
Editors == {"e1"}
Publishers == {"p1"}
Agents == Reporters \cup Editors \cup Publishers

role(a) ==
    IF a \in Reporters THEN "reporter"
    ELSE IF a \in Editors THEN "editor" ELSE "publisher"

NoAgent == "null"

---------------------------------------------------------------------------
(* Rows *)

NoInput ==
    [detection |-> 0, research |-> 0, draft |-> 0, feedback |-> 0,
     revision_number |-> 0, human_prompt_id |-> 0, article_id |-> 0]

NoOutput == [decision |-> "", content |-> 0, error |-> FALSE]

(* TaskQueue.create: the inserted row *)
Task(story, stage, priority, input, now) ==
    [story |-> story, stage |-> stage, status |-> "pending",
     priority |-> priority, assigned_agent |-> NoAgent,
     input |-> input, output |-> NoOutput,
     created_at |-> now, started_at |-> "null", completed_at |-> "null"]

(* EventStore.append: the inserted row *)
Event(story, type, task, output, score, dup, now) ==
    [story |-> story, type |-> type, task |-> task, output |-> output,
     score |-> score, is_duplicate |-> dup, at |-> now]

TaskIds == 1..Len(tasks)

Min(a, b) == IF a < b THEN a ELSE b

HasEvent(ev, s, type) == \E i \in 1..Len(ev) : ev[i].story = s /\ ev[i].type = type

(* get_story_events (ORDER BY created_at ASC) and next(e for e in events if
   ...): the index of the story's first event of these types, 0 for None *)
FirstEvent(ev, s, types) ==
    LET idx == {i \in 1..Len(ev) : ev[i].story = s /\ ev[i].type \in types}
    IN IF idx = {} THEN 0
       ELSE CHOOSE i \in idx : \A j \in idx :
                \/ ev[i].at < ev[j].at
                \/ ev[i].at = ev[j].at /\ i <= j

(* next(e for e in reversed(events) if ...) *)
LastEvent(ev, s, types) ==
    LET idx == {i \in 1..Len(ev) : ev[i].story = s /\ ev[i].type \in types}
    IN IF idx = {} THEN 0
       ELSE CHOOSE i \in idx : \A j \in idx :
                \/ ev[j].at < ev[i].at
                \/ ev[i].at = ev[j].at /\ j <= i

(* get_story_events: SELECT ... WHERE story_id = $1 ORDER BY created_at ASC.
   The ids of the story's events in every order the query may return them:
   ascending created_at, rows of equal created_at in any order *)
get_story_events(s) ==
    LET idx == {i \in 1..Len(events) : events[i].story = s}
        n == Cardinality(idx)
    IN {result \in [1..n -> idx] :
           /\ \A i, j \in 1..n : i # j => result[i] # result[j]
           /\ \A i, j \in 1..n : i < j => events[result[i]].at <= events[result[j]].at}

StoryTasks(tk, s, stages) ==
    {t \in 1..Len(tk) : tk[t].story = s /\ tk[t].stage \in stages}

Count(ev, s, type) == Cardinality({i \in 1..Len(ev) : ev[i].story = s /\ ev[i].type = type})

(* SQL LIMIT n without ORDER BY: the row sets the query may return, any n
   of the rows when there are more *)
Limit(S, n) ==
    IF Cardinality(S) <= n THEN {S} ELSE {R \in SUBSET S : Cardinality(R) = n}

---------------------------------------------------------------------------
(* Task queue (db/tasks.py) *)

(* A mapping in which a role the routine does not know may take any stage *)
OpenRoleStages(r) ==
    CASE r = "reporter" -> {"research", "draft", "edit"}
      [] r = "editor" -> {"review"}
      [] r = "publisher" -> {"publish"}
      [] r = "scout" -> {"detect"}
      [] OTHER -> {"research", "draft", "edit", "review", "publish", "detect"}

(* The role-to-stage mapping of the claim_task stored routine *)
RoleStages(r) ==
    CASE r = "reporter" -> {"research", "draft", "edit"}
      [] r = "editor" -> {"review"}
      [] r = "publisher" -> {"publish"}
      [] r = "scout" -> {"detect"}
      [] OTHER -> {}

(* A WHERE clause that does not exclude rows another caller has taken *)
ClaimableOrActive(r) ==
    {t \in TaskIds : tasks[t].status \in {"pending", "active"} /\ tasks[t].stage \in RoleStages(r)}

(* claim_task: Claimable is its WHERE clause. The pending task eligible for the role with the highest
   priority, then the oldest created_at, then the lowest id; 0 when none.
   The routine selects and updates in one transaction (FOR UPDATE SKIP
   LOCKED), so the whole claim is one atomic step. *)
Claimable(r) ==
    {t \in TaskIds : tasks[t].status = "pending" /\ tasks[t].stage \in RoleStages(r)}

(* A routine that orders equal priorities newest first *)
claim_newest(r) ==
    LET cand == Claimable(r)
        Before(t, u) ==
            \/ tasks[t].priority > tasks[u].priority
            \/ tasks[t].priority = tasks[u].priority /\ tasks[t].created_at > tasks[u].created_at
            \/ tasks[t].priority = tasks[u].priority /\ tasks[t].created_at = tasks[u].created_at /\ t <= u
    IN IF cand = {} THEN 0 ELSE CHOOSE t \in cand : \A u \in cand : Before(t, u)

claim_task(r) ==
    LET cand == Claimable(r)
        Before(t, u) ==
            \/ tasks[t].priority > tasks[u].priority
            \/ tasks[t].priority = tasks[u].priority /\ tasks[t].created_at < tasks[u].created_at
            \/ tasks[t].priority = tasks[u].priority /\ tasks[t].created_at = tasks[u].created_at /\ t <= u
    IN IF cand = {} THEN 0 ELSE CHOOSE t \in cand : \A u \in cand : Before(t, u)

(* claim_task: the update of the selected row *)
claimed(t, a) ==
    [tasks EXCEPT ![t].status = "active", ![t].assigned_agent = a, ![t].started_at = "fresh"]

CompletedType(stage) ==
    CASE stage = "research" -> "task.completed.research"
      [] stage = "draft" -> "task.completed.draft"
      [] stage = "edit" -> "task.completed.edit"
      [] stage = "review" -> "task.completed.review"
      [] stage = "publish" -> "task.completed.publish"

FailedType(stage) ==
    CASE stage = "research" -> "task.failed.research"
      [] stage = "draft" -> "task.failed.draft"
      [] stage = "edit" -> "task.failed.edit"
      [] stage = "review" -> "task.failed.review"
      [] stage = "publish" -> "task.failed.publish"

FailedTypes ==
    {"task.failed.research", "task.failed.draft", "task.failed.edit",
     "task.failed.review", "task.failed.publish"}

(* TaskQueue.complete: UPDATE ... WHERE id = $1 *)
complete(t, out) ==
    [tasks EXCEPT ![t].status = "completed", ![t].output = out, ![t].completed_at = "recent"]

(* TaskQueue.fail: UPDATE ... WHERE id = $1 *)
fail(t) ==
    [tasks EXCEPT ![t].status = "failed",
                  ![t].output = [decision |-> "", content |-> 0, error |-> TRUE],
                  ![t].completed_at = "recent"]

---------------------------------------------------------------------------
(* Agent runtime (agents/base.py) and the workers' handle_task *)

(* A registered agent that holds no task: _running is set and self.status,
   which every assignment follows with a heartbeat that writes it to the
   agent's row, is idle *)
Idle ==
    [pc |-> "idle", task |-> 0, out |-> NoOutput, prompts |-> {},
     running |-> TRUE, status |-> "idle"]

(* The agent without a task, its _running and status as they are *)
Rest(a) == [agent[a] EXCEPT !.pc = "idle", !.task = 0, !.out = NoOutput, !.prompts = {}]

(* process_task, finally: self.status = IDLE; heartbeat() *)
Finally(a) == [Rest(a) EXCEPT !.status = "idle"]

(* TaskQueue.claim(agent_id, role): the row claim_task returns, or None *)
claim(a, r) ==
    /\ LET t == claim_task(r)
       IN IF t = 0
          THEN /\ agent' = [agent EXCEPT ![a] = Rest(a)]
               /\ UNCHANGED tasks
          ELSE /\ tasks' = claimed(t, a)
               /\ agent' = [agent EXCEPT ![a] = [Rest(a) EXCEPT !.pc = "handle", !.task = t]]
    /\ UNCHANGED <<events, prompts, memory, articles, clock, chief, expired>>

(* run: while self._running: task = claim(agent_id, role); with a task
   process_task starts (self.status = WORKING; heartbeat()), without one
   the loop sleeps *)
Claim(a) ==
    /\ agent[a].pc \in {"start", "idle"}
    /\ agent[a].running
    /\ LET t == claim_task(role(a))
       IN IF t = 0
          THEN /\ agent' = [agent EXCEPT ![a] = Rest(a)]
               /\ UNCHANGED tasks
          ELSE /\ tasks' = claimed(t, a)
               /\ agent' = [agent EXCEPT ![a] = [Rest(a) EXCEPT !.pc = "handle", !.task = t,
                                                                !.status = "working"]]
    /\ UNCHANGED <<events, prompts, memory, articles, clock, chief, expired>>

PendingPrompts(s) == {p \in 1..Len(prompts) : prompts[p].story = s /\ prompts[p].status = "pending"}

(* ReporterAgent.research, first await: get_pending_prompts reads the
   story's pending prompts *)
ResearchStart(a) ==
    /\ agent[a].pc = "handle"
    /\ tasks[agent[a].task].stage = "research"
    /\ agent' = [agent EXCEPT ![a].pc = "mark",
                              ![a].prompts = PendingPrompts(tasks[agent[a].task].story)]
    /\ UNCHANGED <<events, tasks, prompts, memory, articles, clock, chief, expired>>

(* HumanPromptStore.mark_processing for each prompt read: an UPDATE by id,
   whatever the prompt's status has become *)
MarkProcessing(a) ==
    /\ agent[a].pc = "mark"
    /\ prompts' = [p \in 1..Len(prompts) |->
                     IF p \in agent[a].prompts THEN [prompts[p] EXCEPT !.status = "processing"]
                     ELSE prompts[p]]
    /\ agent' = [agent EXCEPT ![a].pc = "research"]
    /\ UNCHANGED <<events, tasks, memory, articles, clock, chief, expired>>

(* ReporterAgent.research, second part: answer the prompts read at the
   start, log research.completed, return the research output *)
ResearchFinish(a) ==
    /\ agent[a].pc = "research"
    /\ LET t == agent[a].task
       IN /\ prompts' = [p \in 1..Len(prompts) |->
                            IF p \in agent[a].prompts THEN [prompts[p] EXCEPT !.status = "answered"]
                            ELSE prompts[p]]
          /\ events' = Append(events, Event(tasks[t].story, "research.completed", 0, NoOutput, 0, FALSE, clock))
          /\ agent' = [agent EXCEPT ![a].pc = "complete",
                                    ![a].out = [NoOutput EXCEPT !.content = clock],
                                    ![a].prompts = {}]
    /\ clock' = clock + 1
    /\ UNCHANGED <<tasks, memory, articles, chief, expired>>

(* ReporterAgent.draft and ReporterAgent.revise: generate the text, log
   draft.completed or revision.completed, return the text *)
Draft(a) ==
    /\ agent[a].pc = "handle"
    /\ tasks[agent[a].task].stage \in {"draft", "edit"}
    /\ LET t == agent[a].task
           type == IF tasks[t].stage = "draft" THEN "draft.completed" ELSE "revision.completed"
       IN /\ events' = Append(events, Event(tasks[t].story, type, 0, NoOutput, 0, FALSE, clock))
          /\ agent' = [agent EXCEPT ![a].pc = "complete",
                                    ![a].out = [NoOutput EXCEPT !.content = clock]]
    /\ clock' = clock + 1
    /\ UNCHANGED <<tasks, prompts, memory, articles, chief, expired>>

(* EditorAgent.review_article: the decision is the worker's *)
Review(a, d) ==
    /\ agent[a].pc = "handle"
    /\ tasks[agent[a].task].stage = "review"
    /\ agent' = [agent EXCEPT ![a].pc = "complete",
                              ![a].out = [NoOutput EXCEPT !.decision = d]]
    /\ UNCHANGED <<events, tasks, prompts, memory, articles, clock, chief, expired>>

(* PublisherAgent.publish: article_store.get is not a method of
   ArticleStore, the call raises *)
Publish(a) ==
    /\ agent[a].pc = "handle"
    /\ tasks[agent[a].task].stage = "publish"
    /\ agent' = [agent EXCEPT ![a].pc = "fail"]
    /\ UNCHANGED <<events, tasks, prompts, memory, articles, clock, chief, expired>>

Failures ==
    Cardinality({i \in 1..Len(events) : events[i].type \in FailedTypes})
    + Cardinality({a \in Agents : agent[a].pc \in {"fail", "log_failed"}})

(* handle_task raises (search, chat service, ...) *)
Raise(a) ==
    /\ agent[a].pc \in {"handle", "research"}
    /\ tasks[agent[a].task].stage # "publish"
    /\ Failures < MaxFailures
    /\ agent' = [agent EXCEPT ![a].pc = "fail", ![a].prompts = {}]
    /\ UNCHANGED <<events, tasks, prompts, memory, articles, clock, chief, expired>>

(* process_task: task_queue.complete(task.id, output) *)
Complete(a) ==
    /\ agent[a].pc = "complete"
    /\ tasks' = complete(agent[a].task, agent[a].out)
    /\ agent' = [agent EXCEPT ![a].pc = "log"]
    /\ UNCHANGED <<events, prompts, memory, articles, clock, chief, expired>>

(* process_task: log_event(task.completed.<stage>, {task_id, output}) *)
LogCompleted(a) ==
    /\ agent[a].pc = "log"
    /\ LET t == agent[a].task
       IN events' = Append(events, Event(tasks[t].story, CompletedType(tasks[t].stage), t, agent[a].out, 0, FALSE, clock))
    /\ clock' = clock + 1
    /\ agent' = [agent EXCEPT ![a] = Finally(a)]
    /\ UNCHANGED <<tasks, prompts, memory, articles, chief, expired>>

(* process_task, except branch: task_queue.fail(task.id, str(e)) *)
Fail(a) ==
    /\ agent[a].pc = "fail"
    /\ tasks' = fail(agent[a].task)
    /\ agent' = [agent EXCEPT ![a].pc = "log_failed"]
    /\ UNCHANGED <<events, prompts, memory, articles, clock, chief, expired>>

(* process_task, except branch: log_event(task.failed.<stage>, ...) *)
LogFailed(a) ==
    /\ agent[a].pc = "log_failed"
    /\ LET t == agent[a].task
       IN events' = Append(events, Event(tasks[t].story, FailedType(tasks[t].stage), t, NoOutput, 0, FALSE, clock))
    /\ clock' = clock + 1
    /\ agent' = [agent EXCEPT ![a] = Finally(a)]
    /\ UNCHANGED <<tasks, prompts, memory, articles, chief, expired>>

(* process_task: log_event(task.completed.<stage>) raises inside the try
   block, after task_queue.complete; the except branch takes over *)
LogRaises(a) ==
    /\ agent[a].pc = "log"
    /\ Failures < MaxFailures
    /\ agent' = [agent EXCEPT ![a].pc = "fail"]
    /\ UNCHANGED <<events, tasks, prompts, memory, articles, clock, chief, expired>>

(* process_task, except branch: log_event(task.failed.<stage>) raises; the
   finally block runs and run() catches the exception and goes on *)
FailedLogRaises(a) ==
    /\ agent[a].pc = "log_failed"
    /\ agent' = [agent EXCEPT ![a] = Finally(a)]
    /\ UNCHANGED <<events, tasks, prompts, memory, articles, clock, chief, expired>>

(* The worker is interrupted (cancelled or killed) while it processes a task
   and does not run again *)
Stop(a) ==
    /\ agent[a].pc \notin {"start", "idle", "stopped"}
    /\ agent' = [agent EXCEPT ![a].pc = "stopped"]
    /\ UNCHANGED <<events, tasks, prompts, memory, articles, clock, chief, expired>>

(* BaseAgent.stop, which NewsTown.stop calls once for each agent while the
   agent's run() is at any of its awaits: _running = False; self.status =
   OFFLINE; heartbeat() *)
stop(a) ==
    /\ agent[a].running
    /\ agent[a].pc # "stopped"
    /\ agent' = [agent EXCEPT ![a].running = FALSE, ![a].status = "offline"]
    /\ UNCHANGED <<events, tasks, prompts, memory, articles, clock, chief, expired>>

---------------------------------------------------------------------------
(* Chief (chief/orchestrator.py).  A phase of the sweep (its query and the
   loop over the rows it returned) is one step, except the recovery phase,
   whose rows are reset one statement at a time while workers run.  A phase
   works on a snapshot db of the tables it writes. *)

DB == [events |-> events, tasks |-> tasks, articles |-> articles, clock |-> clock]

(* task_queue.create *)
create(db, story, stage, priority, input) ==
    [db EXCEPT !.tasks = Append(@, Task(story, stage, priority, input, db.clock)),
               !.clock = @ + 1]

(* The log keeps at most MaxRepeats events of one type per story: a
   further one is dropped *)
Full(ev, story, type) == Count(ev, story, type) >= MaxRepeats

(* A log that keeps one row per story and event type and overwrites it *)
log_latest(db, story, type, score) ==
    LET i == FirstEvent(db.events, story, {type})
        e == Event(story, type, 0, NoOutput, score, FALSE, db.clock)
    IN IF i = 0
       THEN [db EXCEPT !.events = Append(@, e), !.clock = @ + 1]
       ELSE [db EXCEPT !.events[i] = e, !.clock = @ + 1]

(* BaseAgent.log_event as the Chief calls it *)
log_event(db, story, type, score) ==
    IF Full(db.events, story, type) THEN db
    ELSE [db EXCEPT !.events = Append(@, Event(story, type, 0, NoOutput, score, FALSE, db.clock)),
                    !.clock = @ + 1]

(* process_human_prompts, loop body: a research task for the prompt if the
   story has a detection; the prompt row is left as it is *)
HandlePrompt(db, p) ==
    LET s == prompts[p].story
        d == FirstEvent(db.events, s, {"story.detected"})
    IN IF d = 0 THEN db
       ELSE IF Cardinality({t \in 1..Len(db.tasks) : db.tasks[t].stage = "research"}) < MaxResearchTasks
       THEN create(db, s, "research", PromptPriority,
                   [NoInput EXCEPT !.detection = d, !.human_prompt_id = p])
       ELSE db

(* round(score * 10), halves rounded up *)
RoundedPriority(score) == (score * 10 + 50) \div 100

(* priority=int(score * 10), the score in hundredths *)
AdmissionPriority(score) == (score * 10) \div 100

(* A threshold test that also rejects the threshold itself *)
LowOrEqualScore(score) == score <= MinNewsworthiness

(* score < settings.min_newsworthiness_score *)
LowScore(score) == score < MinNewsworthiness

(* process_new_detections, loop body *)
HandleDetection(db, s) ==
    LET d == FirstEvent(db.events, s, {"story.detected"})
        score == db.events[d].score
    IN IF d = 0 THEN db
       ELSE IF LowScore(score)
       THEN log_event(db, s, "story.rejected", score)
       ELSE create(log_event(db, s, "story.created", score), s, "research",
                   AdmissionPriority(score), [NoInput EXCEPT !.detection = d])

(* assign_research_to_draft, loop body *)
HandleResearch(db, s) ==
    LET r == LastEvent(db.events, s, {"task.completed.research"})
        d == FirstEvent(db.events, s, {"story.detected"})
    IN IF r = 0 \/ d = 0 THEN db
       ELSE create(db, s, "draft", DraftPriority,
                   [NoInput EXCEPT !.detection = d, !.research = db.events[r].output.content])

(* assign_draft_to_review, loop body: the draft is the output of the latest
   task.completed.draft or task.completed.edit event *)
HandleDraft(db, s) ==
    LET e == LastEvent(db.events, s, {"task.completed.draft", "task.completed.edit"})
    IN IF e = 0 THEN db
       ELSE create(db, s, "review", ReviewPriority,
                   [NoInput EXCEPT !.draft = db.events[e].output.content])

(* A bound that is one revision late *)
OneRevisionLate(revision_count) == revision_count > MaxRevisions

(* No bound on the revisions *)
NeverTooMany(revision_count) == FALSE

(* revision_count >= 3 *)
TooManyRevisions(revision_count) == revision_count >= MaxRevisions

(* SELECT * FROM story_tasks WHERE story_id = $1 ORDER BY created_at DESC
   LIMIT 1 *)
LatestTask(tk, s) ==
    LET ts == StoryTasks(tk, s, {"research", "draft", "edit", "review", "publish"})
    IN IF ts = {} THEN 0
       ELSE CHOOSE t \in ts : \A u \in ts :
                \/ tk[u].created_at < tk[t].created_at
                \/ tk[u].created_at = tk[t].created_at /\ u <= t

(* process_reviews, loop body; row is the review task as the query read it *)
HandleReview(db, row) ==
    LET s == row.story
        revision_count == Cardinality(StoryTasks(db.tasks, s, {"edit"}))
    IN CASE row.output.decision = "APPROVE" ->
              IF StoryTasks(db.tasks, s, {"publish"}) = {} /\ row.input.draft # 0
              THEN LET a == Len(db.articles) + 1
                       withArticle == [db EXCEPT !.articles = Append(@, [story |-> s, body |-> row.input.draft])]
                   IN create(withArticle, s, "publish", PublishPriority,
                             [NoInput EXCEPT !.article_id = a])
              ELSE db
         [] row.output.decision = "REJECT" ->
              IF TooManyRevisions(revision_count)
              THEN log_event(db, s, "story.killed", 0)
              ELSE IF LatestTask(db.tasks, s) = row.id
              THEN create(db, s, "edit", EditPriority,
                          [NoInput EXCEPT !.draft = row.input.draft,
                                          !.feedback = row.id,
                                          !.revision_number = revision_count + 1])
              ELSE db
         [] OTHER -> db

(* process_reviews, loop body, when task_queue.create raises after
   create_article in the APPROVE branch: the except branch logs the error
   and the loop goes on, the article row stays *)
HandleReviewCreateFails(db, row) ==
    IF /\ row.output.decision = "APPROVE"
       /\ StoryTasks(db.tasks, row.story, {"publish"}) = {}
       /\ row.input.draft # 0
    THEN [db EXCEPT !.articles = Append(@, [story |-> row.story, body |-> row.input.draft])]
    ELSE HandleReview(db, row)

Handle(phase, db, row) ==
    CASE phase = "prompts" -> HandlePrompt(db, row)
      [] phase = "create_fails" -> HandleReviewCreateFails(db, row)
      [] phase = "detections" -> HandleDetection(db, row)
      [] phase = "research" -> HandleResearch(db, row)
      [] phase = "drafts" -> HandleDraft(db, row)
      [] phase = "reviews" -> HandleReview(db, row)

(* The rows that may come first: prompts come ORDER BY created_at, the
   rows of the other queries in any order *)
First(phase, rows) ==
    IF phase = "prompts" THEN {r \in rows : \A q \in rows : r <= q}
    ELSE rows

(* for row in rows: the set of snapshots the loop can end with *)
RECURSIVE Loop(_, _, _)
Loop(phase, db, rows) ==
    IF rows = {} THEN {db}
    ELSE UNION {Loop(phase, next, rows \ {r}) :
                   <<r, next>> \in {<<q, Handle(phase, db, q)>> : q \in First(phase, rows)}}

(* SELECT DISTINCT story_id FROM story_events *)
Used == {events[i].story : i \in 1..Len(events)}

(* The rows a phase query returns *)
Row(t) == [id |-> t, story |-> tasks[t].story, input |-> tasks[t].input, output |-> tasks[t].output]

(* get_pending_prompts(): WHERE status = 'pending' ORDER BY created_at ASC *)
PromptRows == {p \in 1..Len(prompts) : prompts[p].status = "pending"}

(* detected_stories LEFT JOIN created_stories WHERE c.story_id IS NULL *)
DetectionRows ==
    {s \in Used : HasEvent(events, s, "story.detected") /\ ~HasEvent(events, s, "story.created")}

(* A query that does not look for the story's draft task *)
ResearchedRows == {s \in Used : HasEvent(events, s, "task.completed.research")}

(* research_completed LEFT JOIN draft_tasks WHERE d.story_id IS NULL *)
ResearchRows ==
    {s \in Used : /\ HasEvent(events, s, "task.completed.research")
                     /\ StoryTasks(tasks, s, {"draft"}) = {}}

(* latest_drafts without a pending or active review and newer than the
   newest completed review task *)
DraftRows ==
    {s \in Used :
        LET d == LastEvent(events, s, {"draft.completed", "revision.completed"})
            reviews == StoryTasks(tasks, s, {"review"})
        IN /\ d # 0
           /\ \A t \in reviews : tasks[t].status \notin {"pending", "active"}
           /\ \A t \in reviews : tasks[t].status = "completed" => events[d].at > tasks[t].created_at}

(* stage = 'review' AND status = 'completed' AND completed_at > NOW() - 1 hour *)
ReviewRows ==
    {Row(t) : t \in {u \in TaskIds : /\ tasks[u].stage = "review"
                                     /\ tasks[u].status = "completed"
                                     /\ tasks[u].completed_at = "recent"}}

(* A recovery query with the lease comparison the wrong way round *)
FreshRows == {t \in TaskIds : tasks[t].status = "active" /\ tasks[t].started_at = "fresh"}

(* status = 'active' AND started_at < now() - INTERVAL '30 minutes' *)
StalledRows == {t \in TaskIds : tasks[t].status = "active" /\ tasks[t].started_at = "stalled"}

(* One phase of the sweep: the query, which returns one of the row sets
   fetched, and the loop over its rows *)
Phase(phase, fetched, next) ==
    /\ chief.pc = phase
    /\ \E rows \in fetched : \E db \in Loop(phase, DB, rows) :
          /\ events' = db.events
          /\ tasks' = db.tasks
          /\ articles' = db.articles
          /\ clock' = db.clock
    /\ chief' = [chief EXCEPT !.pc = next]
    /\ UNCHANGED <<prompts, memory, agent, expired>>

process_human_prompts == Phase("prompts", {PromptRows}, "detections")

process_new_detections == Phase("detections", Limit(DetectionRows, QueryLimit), "research")

assign_research_to_draft == Phase("research", Limit(ResearchRows, QueryLimit), "drafts")

assign_draft_to_review == Phase("drafts", Limit(DraftRows, QueryLimit), "reviews")

process_reviews == Phase("reviews", Limit(ReviewRows, QueryLimit), "recover")

(* process_reviews in a sweep in which the inserts into story_tasks of the
   APPROVE branch fail *)
process_reviews_create_fails ==
    /\ chief.pc = "reviews"
    /\ Len(articles) < MaxArticles
    /\ \E rows \in Limit(ReviewRows, QueryLimit) : \E db \in Loop("create_fails", DB, rows) :
          /\ events' = db.events
          /\ tasks' = db.tasks
          /\ articles' = db.articles
          /\ clock' = db.clock
    /\ chief' = [chief EXCEPT !.pc = "recover"]
    /\ UNCHANGED <<prompts, memory, agent, expired>>

(* process_new_detections, loop body, when one of its awaits raises: at
   get_story_events or log_event nothing of the row is written, at
   task_queue.create the story.created event is already logged *)
HandleDetectionRaises(db, s) ==
    LET d == FirstEvent(db.events, s, {"story.detected"})
        score == db.events[d].score
    IN IF d = 0 \/ LowScore(score) THEN {db}
       ELSE {db, log_event(db, s, "story.created", score)}

(* process_new_detections in a sweep in which the handling of one row
   raises: the rows before it are handled, the exception leaves the loop
   and the try block of Chief.run, and the next iteration starts *)
process_new_detections_raises ==
    /\ chief.pc = "detections"
    /\ \E rows \in Limit(DetectionRows, QueryLimit) : \E r \in rows :
          \E handled \in SUBSET (rows \ {r}) : \E before \in Loop("detections", DB, handled) :
             \E db \in HandleDetectionRaises(before, r) :
                /\ events' = db.events
                /\ tasks' = db.tasks
                /\ articles' = db.articles
                /\ clock' = db.clock
    /\ chief' = [chief EXCEPT !.pc = "prompts"]
    /\ UNCHANGED <<prompts, memory, agent, expired>>

(* recover_stalled_tasks: the SELECT; with no rows the sweep is over *)
recover_stalled_tasks ==
    /\ chief.pc = "recover"
    /\ chief' = [pc |-> IF StalledRows = {} THEN "prompts" ELSE "reset", rows |-> StalledRows]
    /\ UNCHANGED <<events, tasks, prompts, memory, articles, clock, agent, expired>>

(* A reset that puts the status back and leaves the assignment *)
reset_status(t) ==
    [tasks EXCEPT ![t].status = "pending", ![t].started_at = "null"]

(* UPDATE story_tasks SET status = 'pending', assigned_agent = NULL,
   started_at = NULL WHERE id = $1 *)
reset(t) ==
    [tasks EXCEPT ![t].status = "pending", ![t].assigned_agent = NoAgent, ![t].started_at = "null"]

(* recover_stalled_tasks: the UPDATE of one selected row *)
RecoverTask ==
    /\ chief.pc = "reset"
    /\ \E t \in chief.rows :
          /\ tasks' = reset(t)
          /\ chief' = [pc |-> IF chief.rows = {t} THEN "prompts" ELSE "reset",
                       rows |-> chief.rows \ {t}]
    /\ UNCHANGED <<events, prompts, memory, articles, clock, agent, expired>>

(* Chief.run: one iteration is prompts, detections, advance_stories,
   recovery *)
Sweep ==
    \/ process_human_prompts
    \/ process_new_detections
    \/ assign_research_to_draft
    \/ assign_draft_to_review
    \/ process_reviews
    \/ recover_stalled_tasks

---------------------------------------------------------------------------
(* Scout (agents/scout.py) and story memory (db/memory.py) *)

Embeddings == 1..NEmbeddings

(* Embeddings are points on a line; the cosine similarity of two of them,
   in hundredths, falls with their distance: 100, 93, 92, 85, 77, ... *)
Position(e) == 8 * (e - 1) - ((e - 1) \div 2)

Similarity(e1, e2) ==
    LET d == Position(e1) - Position(e2)
    IN 100 - (IF d < 0 THEN 0 - d ELSE d)

(* A similarity search that takes the threshold itself as a match *)
find_similar_inclusive(e, threshold) ==
    LET distance(m) == 100 - Similarity(memory[m].embedding, e)
        rows == {m \in 1..Len(memory) : distance(m) <= 100 - threshold}
    IN {m \in rows : \A n \in rows : distance(m) <= distance(n)}

(* find_similar_stories(embedding, threshold, limit=1): the rows with
   (embedding <=> $1) < 1.0 - threshold, ORDER BY distance ASC LIMIT 1.
   The result is the set of rows the query may return first. *)
find_similar_stories(e, threshold) ==
    LET distance(m) == 100 - Similarity(memory[m].embedding, e)
        distance_threshold == 100 - threshold
        rows == {m \in 1..Len(memory) : distance(m) < distance_threshold}
    IN {m \in rows : \A n \in rows : distance(m) <= distance(n)}

(* calculate_newsworthiness: summary is 0 (none), 1 (up to 200 characters)
   or 2 (longer) *)
calculate_newsworthiness(entry) ==
    LET score == (IF entry.title /\ entry.summary > 0 THEN 30 ELSE 0)
                 + 20
                 + (IF entry.link THEN 20 ELSE 0)
                 + (IF entry.summary = 2 THEN 20 ELSE 0)
    IN Min(score, 100)

Entries ==
    [title : BOOLEAN, summary : 0..2, link : BOOLEAN,
     embedding : Embeddings, embeds : BOOLEAN]

(* scan_feed, loop body for one entry *)
ScanEntry(entry) ==
    LET score == calculate_newsworthiness(entry)
        similar_stories == IF entry.embeds
                           THEN find_similar_stories(entry.embedding, DedupThreshold)
                           ELSE {}
    IN /\ Len(events) < MaxScans
       /\ IF score < ScoutThreshold
          THEN UNCHANGED <<events, memory, clock>>
          ELSE IF similar_stories # {}
          THEN \E m \in similar_stories :
                  /\ events' = Append(events, Event(memory[m].story, "story.detected", 0, NoOutput, score, TRUE, clock))
                  /\ clock' = clock + 1
                  /\ UNCHANGED memory
          ELSE \E s \in {x \in Stories \ Used : \A y \in Stories \ Used : x <= y} :  \* uuid4()
                  /\ events' = Append(events, Event(s, "story.detected", 0, NoOutput, score, FALSE, clock))
                  /\ clock' = clock + 1
                  /\ memory' = IF entry.embeds
                               THEN Append(memory, [story |-> s, embedding |-> entry.embedding])
                               ELSE memory
       /\ UNCHANGED <<tasks, prompts, articles, agent, chief, expired>>

---------------------------------------------------------------------------
(* The world around the pipeline *)

Pipelines == 1..MaxPipelines

DetectionScores == {40, 60, 85}

Detections(s) == Count(events, s, "story.detected")

(* The Scout's log_event(story_id, "story.detected", {..., score,
   is_duplicate}) for a story of the pipeline *)
Detect(s, score) ==
    /\ Detections(s) < MaxDetections
    /\ events' = Append(events, Event(s, "story.detected", 0, NoOutput, score, Detections(s) > 0, clock))
    /\ clock' = clock + 1
    /\ UNCHANGED <<tasks, prompts, memory, articles, agent, chief, expired>>

(* HumanPromptStore.create_prompt: a human asks about a story *)
create_prompt(s) ==
    /\ Len(prompts) < MaxPrompts
    /\ prompts' = Append(prompts, [story |-> s, status |-> "pending"])
    /\ UNCHANGED <<events, tasks, memory, articles, clock, agent, chief, expired>>

(* Thirty minutes pass since an active task was claimed *)
LeaseExpires(t) ==
    /\ expired < MaxExpiries
    /\ tasks[t].status = "active"
    /\ tasks[t].started_at = "fresh"
    /\ tasks' = [tasks EXCEPT ![t].started_at = "stalled"]
    /\ expired' = expired + 1
    /\ UNCHANGED <<events, prompts, memory, articles, clock, agent, chief>>

---------------------------------------------------------------------------
(* Specifications *)

Init ==
    /\ events = <<>>
    /\ tasks = <<>>
    /\ prompts = <<>>
    /\ memory = <<>>
    /\ articles = <<>>
    /\ clock = 1
    /\ agent = [a \in Agents |-> [Idle EXCEPT !.pc = "start"]]
    /\ chief = [pc |-> "prompts", rows |-> {}]
    /\ expired = 0

Reporter(a) ==
    \/ Claim(a)
    \/ ResearchStart(a)
    \/ MarkProcessing(a)
    \/ ResearchFinish(a)
    \/ Draft(a)
    \/ Raise(a)
    \/ Complete(a)
    \/ LogCompleted(a)
    \/ Fail(a)
    \/ LogFailed(a)

(* main.py: the Chief, the Scout and two Reporters; humans add prompts *)
Next ==
    \/ \E a \in Reporters : Reporter(a)
    \/ Sweep
    \/ \E s \in Pipelines, score \in DetectionScores : Detect(s, score)
    \/ \E s \in Pipelines : create_prompt(s)

Spec == Init /\ [][Next]_vars

(* The Chief, the Scout and one Reporter, with sweeps in which the handling
   of a detection raises *)
RaisingNext ==
    \/ Reporter("r1")
    \/ Sweep
    \/ process_new_detections_raises
    \/ \E s \in Pipelines, score \in DetectionScores : Detect(s, score)

RaisingSpec == Init /\ [][RaisingNext]_vars

(* The Scout alone, scanning entries *)
ScoutNext == \E entry \in Entries : ScanEntry(entry)

ScoutSpec == Init /\ [][ScoutNext]_vars

(* The Scout scanning entries while the Chief sweeps *)
AdmissionNext ==
    \/ ScoutNext
    \/ Sweep

AdmissionSpec == Init /\ [][AdmissionNext]_vars

Stages == {"research", "draft", "edit", "review", "publish"}

(* A queue holding one pending task, every agent about to call claim *)
RaceInit ==
    /\ events = <<>>
    /\ \E stage \in Stages, priority \in 5..10 :
          tasks = <<Task(1, stage, priority, NoInput, 1)>>
    /\ prompts = <<>>
    /\ memory = <<>>
    /\ articles = <<>>
    /\ clock = 2
    /\ agent = [a \in Agents |-> [Idle EXCEPT !.pc = "start"]]
    /\ chief = [pc |-> "prompts", rows |-> {}]
    /\ expired = 0

RaceNext == \E a \in Agents : Claim(a)

RaceSpec == RaceInit /\ [][RaceNext]_vars

(* Leases run out while the Chief and two Reporters work; the Chief's loop
   keeps running *)
LeaseNext ==
    \/ \E a \in Reporters : Reporter(a)
    \/ Sweep
    \/ RecoverTask
    \/ \E s \in Pipelines, score \in DetectionScores \ {40} : Detect(s, score)
    \/ \E t \in TaskIds : LeaseExpires(t)

LeaseSpec == Init /\ [][LeaseNext]_vars /\ WF_vars(Sweep \/ RecoverTask)

(* The queue on its own: callers create tasks and claim with any role *)
QueueStages == Stages \cup {"detect"}

Priorities == {5, 9}

Roles == {"chief", "scout", "reporter", "editor", "publisher", "mayor"}

(* The agent id the caller passes *)
Callers == {"r1"}

(* task_queue.create(story_id, stage, priority) *)
CreateTask(stage, priority) ==
    /\ Len(tasks) < MaxQueue
    /\ tasks' = Append(tasks, Task(1, stage, priority, NoInput, clock))
    /\ clock' = clock + 1
    /\ UNCHANGED <<events, prompts, memory, articles, agent, chief, expired>>

QueueNext ==
    \/ \E stage \in QueueStages, priority \in Priorities : CreateTask(stage, priority)
    \/ \E a \in Callers, r \in Roles : claim(a, r)

QueueSpec == Init /\ [][QueueNext]_vars

(* The agent runtime with its faults: handle_task or an event append may
   raise, a worker may be interrupted; the Chief and the workers keep
   running as long as they can *)
Worker(a) ==
    \/ Reporter(a)
    \/ LogRaises(a)
    \/ FailedLogRaises(a)

RuntimeNext ==
    \/ \E a \in Reporters : Worker(a)
    \/ \E a \in Reporters : Stop(a)
    \/ Sweep
    \/ \E s \in Pipelines, score \in DetectionScores \ {40} : Detect(s, score)

(* The event store alone (tests/test_database.py): appends by any caller,
   created_at taken from the database clock, which may or may not have
   advanced between two appends *)
EventTypes == {"event.first", "event.second", "event.third"}

(* EventStore.append: INSERT INTO story_events (story_id, agent_id,
   event_type, data); the id is the row's position, created_at the clock *)
append(s, type) ==
    /\ Len(events) < MaxEvents
    /\ events' = Append(events, Event(s, type, 0, NoOutput, 0, FALSE, clock))
    /\ UNCHANGED <<tasks, prompts, memory, articles, clock, agent, chief, expired>>

(* The database clock advances *)
Tick ==
    /\ clock <= MaxTicks
    /\ clock' = clock + 1
    /\ UNCHANGED <<events, tasks, prompts, memory, articles, agent, chief, expired>>

EventNext ==
    \/ \E s \in Stories, type \in EventTypes : append(s, type)
    \/ Tick

EventSpec == Init /\ [][EventNext]_vars

(* The same workers while NewsTown.stop shuts the system down *)
ShutdownNext ==
    \/ \E a \in Reporters : Reporter(a)
    \/ \E a \in Reporters : stop(a)
    \/ Sweep
    \/ \E s \in Pipelines, score \in DetectionScores \ {40} : Detect(s, score)

ShutdownSpec == Init /\ [][ShutdownNext]_vars

RuntimeSpec ==
    /\ Init
    /\ [][RuntimeNext]_vars
    /\ WF_vars(Sweep)
    /\ \A a \in Reporters : WF_vars(Worker(a))

Decisions == {"APPROVE", "REJECT"}

Editor(a) ==
    \/ Claim(a)
    \/ \E d \in Decisions : Review(a, d)
    \/ Complete(a)
    \/ LogCompleted(a)

(* A task row after claim by agent a and complete with output out *)
Completed(row, a, out) == [row EXCEPT !.status = "completed", !.assigned_agent = a, !.output = out,
                                      !.started_at = "fresh", !.completed_at = "recent"]

Content(c) == [NoOutput EXCEPT !.content = c]

Rejected == [NoOutput EXCEPT !.decision = "REJECT"]

(* A story that has been round the revision loop twice: admitted with score
   0.85, researched and drafted by r1, rejected twice by e1 and revised
   twice by r1, every step taken by the actions above, one agent at a time *)
RevisionInit ==
    /\ events = <<Event(1, "story.detected", 0, NoOutput, 85, FALSE, 1),
                  Event(1, "story.created", 0, NoOutput, 85, FALSE, 2),
                  Event(1, "research.completed", 0, NoOutput, 0, FALSE, 4),
                  Event(1, "task.completed.research", 1, Content(4), 0, FALSE, 5),
                  Event(1, "draft.completed", 0, NoOutput, 0, FALSE, 7),
                  Event(1, "task.completed.draft", 2, Content(7), 0, FALSE, 8),
                  Event(1, "task.completed.review", 3, Rejected, 0, FALSE, 10),
                  Event(1, "revision.completed", 0, NoOutput, 0, FALSE, 12),
                  Event(1, "task.completed.edit", 4, Content(12), 0, FALSE, 13),
                  Event(1, "task.completed.review", 5, Rejected, 0, FALSE, 15),
                  Event(1, "revision.completed", 0, NoOutput, 0, FALSE, 17),
                  Event(1, "task.completed.edit", 6, Content(17), 0, FALSE, 18)>>
    /\ tasks = <<Completed(Task(1, "research", AdmissionPriority(85), [NoInput EXCEPT !.detection = 1], 3),
                           "r1", Content(4)),
                 Completed(Task(1, "draft", DraftPriority, [NoInput EXCEPT !.detection = 1, !.research = 4], 6),
                           "r1", Content(7)),
                 Completed(Task(1, "review", ReviewPriority, [NoInput EXCEPT !.draft = 7], 9),
                           "e1", Rejected),
                 Completed(Task(1, "edit", EditPriority,
                                [NoInput EXCEPT !.draft = 7, !.feedback = 3, !.revision_number = 1], 11),
                           "r1", Content(12)),
                 Completed(Task(1, "review", ReviewPriority, [NoInput EXCEPT !.draft = 12], 14),
                           "e1", Rejected),
                 Completed(Task(1, "edit", EditPriority,
                                [NoInput EXCEPT !.draft = 12, !.feedback = 5, !.revision_number = 2], 16),
                           "r1", Content(17))>>
    /\ prompts = <<>>
    /\ memory = <<>>
    /\ articles = <<>>
    /\ clock = 19
    /\ agent = [a \in Agents |-> IF a \in {"r1", "e1"} THEN Idle ELSE [Idle EXCEPT !.pc = "start"]]
    /\ chief = [pc |-> "prompts", rows |-> {}]
    /\ expired = 0

(* One Reporter, one Editor and the Chief take the story on from there *)
RevisionNext ==
    \/ Claim("r1") \/ Draft("r1") \/ Complete("r1") \/ LogCompleted("r1")
    \/ \E a \in Editors : Editor(a)
    \/ Sweep

RevisionSpec == RevisionInit /\ [][RevisionNext]_vars

(* The same story with an Editor whose review may raise *)
FailingReviewNext ==
    \/ RevisionNext
    \/ \E a \in Editors : Raise(a) \/ Fail(a) \/ LogFailed(a)

FailingReviewSpec == RevisionInit /\ [][FailingReviewNext]_vars

(* The same story while a human asks about it; the Chief's loop keeps
   running *)
PromptedNext ==
    \/ RevisionNext
    \/ ResearchStart("r1") \/ MarkProcessing("r1") \/ ResearchFinish("r1")
    \/ \E s \in Pipelines : create_prompt(s)

PromptedSpec == RevisionInit /\ [][PromptedNext]_vars /\ WF_vars(Sweep)

Publisher(a) ==
    \/ Claim(a)
    \/ Publish(a)
    \/ Fail(a)
    \/ LogFailed(a)

(* The same story with a Publisher at work and with sweeps in which the
   creation of the publish task fails *)
PublishNext ==
    \/ RevisionNext
    \/ process_reviews_create_fails
    \/ \E a \in Publishers : Publisher(a)

PublishSpec == RevisionInit /\ [][PublishNext]_vars

(* The same story with a human who may ask about it, a Reporter and an
   Editor who rejects what it reviews (so that the Publisher, whose queue
   stays empty, only polls); no handler raises and nothing crashes; the
   Chief's loop and both agents' loops keep running *)
ReporterRuns(a) ==
    \/ Claim(a)
    \/ ResearchStart(a) \/ MarkProcessing(a) \/ ResearchFinish(a)
    \/ Draft(a)
    \/ Complete(a)
    \/ LogCompleted(a)

EditorRejects(a) ==
    \/ Claim(a)
    \/ Review(a, "REJECT")
    \/ Complete(a)
    \/ LogCompleted(a)

FairNext ==
    \/ Sweep
    \/ ReporterRuns("r1")
    \/ EditorRejects("e1")
    \/ \E s \in Pipelines : create_prompt(s)

FairSpec ==
    /\ RevisionInit
    /\ [][FairNext]_vars
    /\ WF_vars(Sweep)
    /\ WF_vars(ReporterRuns("r1"))
    /\ WF_vars(EditorRejects("e1"))

---------------------------------------------------------------------------
(* Properties *)

(* The agents whose role may take the queued task, and the agents whose
   claim returned a task *)
Eligible == {a \in Agents : tasks[1].stage \in RoleStages(role(a))}

Winners == {a \in Agents : agent[a].pc = "handle"}

(* C1: when agents claim concurrently against a queue holding one eligible
   pending task, exactly one claim returns the task and every other claim
   returns empty; afterwards the task is active and its assigned_agent is
   the agent whose claim returned it.  (RaceSpec) *)
C1_ClaimUniqueness ==
    /\ Cardinality(Winners) <= 1
    /\ \A a \in Winners :
          /\ a \in Eligible
          /\ agent[a].task = 1
          /\ tasks[1].status = "active"
          /\ tasks[1].assigned_agent = a
    /\ \A a \in Agents \ Winners : agent[a].task = 0
    /\ (\E a \in Eligible : agent[a].pc # "start") => Cardinality(Winners) = 1
    /\ Winners = {} => tasks[1].status = "pending" /\ tasks[1].assigned_agent = NoAgent

(* Both Reporters have called claim on a research task and one of them
   holds it *)
C1_Raced ==
    /\ tasks[1].stage = "research"
    /\ \A a \in Reporters : agent[a].pc # "start"
    /\ Winners # {}

(* The memory rows as similar to the entry as the threshold or more, and
   those strictly more similar *)
AtLeast(entry) ==
    {m \in 1..Len(memory) : Similarity(memory[m].embedding, entry.embedding) >= DedupThreshold}

Above(entry) ==
    {m \in 1..Len(memory) : Similarity(memory[m].embedding, entry.embedding) > DedupThreshold}

Nearest(rows, entry) ==
    {m \in rows : \A n \in rows :
        Similarity(memory[m].embedding, entry.embedding) >= Similarity(memory[n].embedding, entry.embedding)}

(* The entry passes the score threshold and its embedding is computed *)
Deduplicated(entry) == calculate_newsworthiness(entry) >= ScoutThreshold /\ entry.embeds

(* The step logs a duplicate detection on the story of one of the rows and
   writes no memory row *)
LinkedTo(rows) ==
    /\ Len(events') = Len(events) + 1
    /\ events'[Len(events')].type = "story.detected"
    /\ events'[Len(events')].is_duplicate
    /\ events'[Len(events')].story \in {memory[m].story : m \in rows}
    /\ memory' = memory

(* The step logs a detection on a new story id and remembers the entry *)
Minted(entry) ==
    /\ Len(events') = Len(events) + 1
    /\ events'[Len(events')].type = "story.detected"
    /\ ~events'[Len(events')].is_duplicate
    /\ events'[Len(events')].story \notin Used
    /\ memory' = Append(memory, [story |-> events'[Len(events')].story, embedding |-> entry.embedding])

(* C7 as stated: an entry whose similarity to a remembered story is at or
   above the dedup threshold is logged as a duplicate of that story, with no
   new story id and no new memory row.  (ScoutSpec) *)
C7_DedupAtThreshold ==
    [][\A entry \in Entries :
          (ScanEntry(entry) /\ Deduplicated(entry) /\ AtLeast(entry) # {})
              => LinkedTo(AtLeast(entry))]_vars

(* C7: an entry whose similarity to a remembered story is strictly above
   the dedup threshold is logged as a duplicate of the nearest such story,
   with no new story id and no new memory row; an entry with no such story,
   one at exactly the threshold included, gets a new story id and a memory
   row.  (ScoutSpec) *)
C7_DedupAboveThreshold ==
    [][\A entry \in Entries :
          (ScanEntry(entry) /\ Deduplicated(entry))
              => IF Above(entry) # {}
                 THEN LinkedTo(Nearest(Above(entry), entry))
                 ELSE Minted(entry)]_vars

(* A duplicate detection has been logged on a remembered story *)
C7_DuplicateLogged ==
    \E i \in 1..Len(events), m \in 1..Len(memory) :
        /\ events[i].is_duplicate
        /\ events[i].story = memory[m].story

(* C2 as stated: at every moment a story has at most one pending or active
   task per stage, whatever the interleaving of Chief sweeps and agents.
   (Spec) *)
C2_NoConcurrentDuplicates ==
    \A t \in TaskIds, u \in TaskIds :
        (/\ tasks[t].story = tasks[u].story
         /\ tasks[t].stage = tasks[u].stage
         /\ tasks[t].status \in {"pending", "active"}
         /\ tasks[u].status \in {"pending", "active"}) => t = u

(* The tasks a step created for a story *)
Created(s) == {t \in (Len(tasks) + 1)..Len(tasks') : tasks'[t].story = s}

(* The score admission reads for a story *)
DetectionOf(s) == FirstEvent(events, s, {"story.detected"})

(* C8: an admission run handles every story it selects (detected, not yet
   created): with a detection score at or above min_newsworthiness_score it
   appends story.created and creates exactly one task, a pending research
   task whose input is the detection; with a lower score it appends
   story.rejected (as long as the log takes it) and creates no task.
   (Spec) *)
C8_Admission ==
    [][process_new_detections =>
          \A s \in DetectionRows :
              IF events[DetectionOf(s)].score >= MinNewsworthiness
              THEN /\ Count(events', s, "story.created") = 1
                   /\ Count(events', s, "story.rejected") = Count(events, s, "story.rejected")
                   /\ Cardinality(Created(s)) = 1
                   /\ \A t \in Created(s) :
                         /\ tasks'[t].stage = "research"
                         /\ tasks'[t].status = "pending"
                         /\ tasks'[t].input.detection = DetectionOf(s)
              ELSE /\ Count(events', s, "story.rejected")
                         = Min(Count(events, s, "story.rejected") + 1, MaxRepeats)
                   /\ Count(events', s, "story.created") = 0
                   /\ Created(s) = {}]_vars

(* Admission has run on a story scored exactly at the threshold and has
   created its pipeline *)
C8_Admitted ==
    \E s \in Used :
        /\ events[DetectionOf(s)].score = MinNewsworthiness
        /\ HasEvent(events, s, "story.created")
        /\ \E t \in TaskIds : tasks[t].story = s /\ tasks[t].input.human_prompt_id = 0

(* The research tasks admission created *)
AdmissionTasks ==
    {t \in TaskIds : tasks[t].stage = "research" /\ tasks[t].input.human_prompt_id = 0}

DetectedScore(t) == events[tasks[t].input.detection].score

(* C9 as stated: the research task created at admission has priority
   round(score x 10); for a score of 0.85 the priority is 9.  (Spec) *)
C9_RoundedPriority ==
    \A t \in AdmissionTasks :
        /\ 100 * tasks[t].priority - 50 <= 10 * DetectedScore(t)
        /\ 10 * DetectedScore(t) < 100 * tasks[t].priority + 50
        /\ DetectedScore(t) = 85 => tasks[t].priority = 9

(* C9: the research task created at admission has priority score x 10
   truncated to an integer; for a score of 0.85 the priority is 8.  (Spec) *)
C9_TruncatedPriority ==
    \A t \in AdmissionTasks :
        /\ 100 * tasks[t].priority <= 10 * DetectedScore(t)
        /\ 10 * DetectedScore(t) < 100 * (tasks[t].priority + 1)
        /\ DetectedScore(t) = 85 => tasks[t].priority = 8

(* Admission has created the research task of a story scored 0.85 *)
C9_Admitted85 == \E t \in AdmissionTasks : DetectedScore(t) = 85

CompletedTypes ==
    {"task.completed.research", "task.completed.draft", "task.completed.edit",
     "task.completed.review", "task.completed.publish"}

(* C5 as stated: the task of every task.completed event has status
   completed, also after lease expiry, recovery and re-claim.  (LeaseSpec) *)
C5_CompletedEventHasCompletedTask ==
    \A i \in 1..Len(events) :
        events[i].type \in CompletedTypes => tasks[events[i].task].status = "completed"

(* The lease of task t has run out and nobody has finished it *)
Stalled(t) ==
    /\ t \in TaskIds
    /\ tasks[t].status = "active"
    /\ tasks[t].started_at = "stalled"

(* Task t is back in the queue and an agent of some role can claim it *)
Reclaimable(t) ==
    /\ t \in TaskIds
    /\ tasks[t].status = "pending"
    /\ tasks[t].assigned_agent = NoAgent
    /\ tasks[t].started_at = "null"
    /\ \E a \in Agents : t \in Claimable(role(a))

Finished(t) == t \in TaskIds /\ tasks[t].status \in {"completed", "failed"}

(* C6: an active task whose lease has run out is eventually reset by the
   Chief's recovery to pending, with assigned_agent and started_at cleared
   and claimable by an agent of an eligible role, unless its holder
   completes or fails it first.  (LeaseSpec, the Chief's loop fair) *)
C6_StalledRecovered ==
    \A t \in 1..(2 * MaxPipelines) : Stalled(t) ~> (Reclaimable(t) \/ Finished(t))

(* A task is pending again while the agent that claimed it still works
   on it *)
C6_Recovered ==
    \E t \in TaskIds, a \in Agents :
        /\ Reclaimable(t)
        /\ agent[a].task = t
        /\ agent[a].pc \notin {"start", "idle"}
        /\ expired > 0

(* C3 as stated: whenever an Article exists for a story, the story's log
   already holds a task.completed.review event with decision APPROVE, and
   the article's body is the draft that review task received.
   (RevisionSpec) *)
C3_ReviewGating ==
    \A a \in 1..Len(articles) :
        \E i \in 1..Len(events) :
            /\ events[i].story = articles[a].story
            /\ events[i].type = "task.completed.review"
            /\ events[i].output.decision = "APPROVE"
            /\ tasks[events[i].task].input.draft = articles[a].body

Edits(s) == StoryTasks(tasks, s, {"edit"})

(* C4: no story ever has more than max_revisions tasks at stage edit.
   (RevisionSpec) *)
C4_RevisionBound == \A s \in Used : Cardinality(Edits(s)) <= MaxRevisions

(* A story has used all its revisions and a further review was rejected *)
C4_BoundReached ==
    \E s \in Used, t \in TaskIds :
        /\ Cardinality(Edits(s)) = MaxRevisions
        /\ tasks[t].story = s
        /\ tasks[t].stage = "review"
        /\ tasks[t].status = "completed"
        /\ tasks[t].output.decision = "REJECT"
        /\ \A e \in Edits(s) : tasks[e].created_at < tasks[t].created_at

(* The rejected reviews a Chief run selects for stories that have used all
   their revisions *)
RejectedAtBound ==
    {row \in ReviewRows : /\ row.output.decision = "REJECT"
                          /\ Cardinality(Edits(row.story)) >= MaxRevisions}

(* C10: when a review has completed with REJECT for a story that already
   has max_revisions edit tasks, the Chief run that handles it appends
   story.killed for the story (as long as the log takes it) and creates no
   edit task.  (RevisionSpec) *)
C10_KilledAtBound ==
    [][process_reviews =>
          \A row \in RejectedAtBound :
              /\ Count(events', row.story, "story.killed")
                    >= Min(Count(events, row.story, "story.killed") + 1, MaxRepeats)
              /\ \A t \in Created(row.story) : tasks'[t].stage # "edit"]_vars

(* story.killed has been appended for a story with max_revisions edits *)
C10_Killed ==
    \E s \in Used : HasEvent(events, s, "story.killed") /\ Cardinality(Edits(s)) = MaxRevisions

(* The completed draft and edit tasks of a story: the drafts and revisions
   produced so far *)
Produced(s) ==
    {t \in StoryTasks(tasks, s, {"draft", "edit"}) : tasks[t].status = "completed"}

(* C11 as stated: when the Chief persists an Article, no completed draft or
   edit of the story is newer than the draft the approving review task
   consumed, the article's body.  (RevisionSpec) *)
C11_ArticleFromLatestDraft ==
    [][\A a \in (Len(articles) + 1)..Len(articles') :
          \A t \in Produced(articles'[a].story) :
              tasks[t].output.content <= articles'[a].body]_vars

TerminalTypes == {"article.published", "story.rejected", "story.killed"}

(* A terminal event has been appended for the story *)
Terminated(s) == \E type \in TerminalTypes : HasEvent(events, s, type)

(* C12 as stated: once article.published, story.rejected or story.killed
   has been appended for a story, no task of any stage is created for that
   story afterwards.  (Spec) *)
C12_NoTaskAfterTermination ==
    [][\A s \in Stories : Terminated(s) => Created(s) = {}]_vars

(* C13 as stated: complete(task_id, output) changes the task row only when
   its status is active; called on a completed, pending or failed task it
   leaves the row as it is.  (LeaseSpec) *)
C13_CompleteOnlyActive ==
    [][\A a \in Agents :
          (Complete(a) /\ tasks[agent[a].task].status # "active") => tasks' = tasks]_vars

(* C14 as stated: once a task's status is failed it never changes again.
   (LeaseSpec) *)
C14_FailedIsTerminal ==
    [][\A t \in TaskIds : tasks[t].status = "failed" => tasks'[t].status = "failed"]_vars

(* The fixed mapping of stages to the roles that may claim them *)
EligibleRole(stage) ==
    CASE stage \in {"research", "draft", "edit"} -> "reporter"
      [] stage = "review" -> "editor"
      [] stage = "publish" -> "publisher"
      [] stage = "detect" -> "scout"

(* The task the claim of this step returned to a, 0 for empty *)
Returned(a) == agent'[a].task

(* C15: claim(agent_id, role) only ever returns a task whose stage is
   eligible for the role under the fixed mapping; a role with no eligible
   stage, an unknown role included, gets empty even when pending tasks
   exist.  (QueueSpec) *)
C15_RoleEligibility ==
    [][\A a \in Agents, r \in Roles :
          claim(a, r) =>
              /\ Returned(a) # 0 => EligibleRole(tasks[Returned(a)].stage) = r
              /\ r \in {"chief", "mayor"} => Returned(a) = 0 /\ tasks' = tasks]_vars

(* A claim has returned an edit task, and a later claim has come back empty
   although a pending task is in the queue *)
C15_WrongRoleEmpty ==
    \E a \in Callers :
        /\ agent[a].pc = "idle"
        /\ \E t \in TaskIds : tasks[t].status = "pending"
        /\ \E t \in TaskIds : /\ tasks[t].stage = "edit"
                               /\ tasks[t].status = "active"
                               /\ tasks[t].assigned_agent = a

(* The pending tasks a role may take under the fixed mapping *)
PendingFor(r) ==
    {u \in TaskIds : tasks[u].status = "pending" /\ EligibleRole(tasks[u].stage) = r}

(* C16: claim returns, among the pending tasks eligible for the role, the
   one with the highest priority, and among tasks of equal priority the one
   with the oldest created_at; it returns empty only when there is none.
   (QueueSpec) *)
C16_ClaimOrder ==
    [][\A a \in Callers, r \in Roles :
          claim(a, r) =>
              IF PendingFor(r) = {} THEN Returned(a) = 0
              ELSE /\ Returned(a) \in PendingFor(r)
                   /\ \A u \in PendingFor(r) :
                         \/ tasks[Returned(a)].priority > tasks[u].priority
                         \/ /\ tasks[Returned(a)].priority = tasks[u].priority
                            /\ tasks[Returned(a)].created_at <= tasks[u].created_at]_vars

(* Of three reporter tasks the newest, of higher priority, has been claimed,
   then the older of the two of equal priority, and the younger is still
   pending *)
C16_ClaimedInOrder ==
    \E x \in TaskIds, y \in TaskIds, z \in TaskIds :
        /\ {tasks[x].stage, tasks[y].stage, tasks[z].stage} \subseteq {"research", "draft", "edit"}
        /\ tasks[x].status = "active" /\ tasks[y].status = "active" /\ tasks[z].status = "pending"
        /\ tasks[x].priority > tasks[y].priority
        /\ tasks[y].priority = tasks[z].priority
        /\ tasks[y].created_at < tasks[z].created_at
        /\ tasks[z].created_at < tasks[x].created_at

(* Agent a's step ends its execution of a task *)
Ends(a) == agent[a].pc \notin {"start", "idle", "stopped"} /\ agent'[a].pc = "idle"

TaskEvents(ev, t, types) == {i \in 1..Len(ev) : ev[i].task = t /\ ev[i].type \in types}

(* The execution has completed task t with the output handle_task returned
   and logged it, and has not failed it *)
CompletedOutcome(a, t) ==
    /\ tasks'[t].status = "completed"
    /\ tasks'[t].output = agent[a].out
    /\ \E i \in TaskEvents(events', t, CompletedTypes) : events'[i].output = agent[a].out
    /\ TaskEvents(events', t, FailedTypes) = {}

(* The execution has failed task t and logged it, and has not completed it *)
FailedOutcome(t) ==
    /\ tasks'[t].status = "failed"
    /\ TaskEvents(events', t, FailedTypes) # {}
    /\ TaskEvents(events', t, CompletedTypes) = {}

(* C17 as stated: every execution of a claimed task ends either with the
   task completed with the returned output and a task.completed.<stage>
   event carrying it, or with the task failed and a task.failed.<stage>
   event; no execution both completes and fails its task.  (RuntimeSpec,
   where a task has one holder) *)
C17_OneOutcome ==
    [][\A a \in Reporters :
          /\ Ends(a) => CompletedOutcome(a, agent[a].task) \/ FailedOutcome(agent[a].task)
          /\ Fail(a) => tasks[agent[a].task].status # "completed"]_vars

IsCompleted(t) == t \in TaskIds /\ tasks[t].status = "completed"

CompletionLogged(t) == TaskEvents(events, t, CompletedTypes) # {}

(* C18 as stated: every task that reaches status completed eventually has
   a task.completed.<stage> event in its story's log, also when the worker
   is interrupted or the event append raises between the update of the task
   row and the append.  (RuntimeSpec, the Chief and the workers fair) *)
C18_CompletionLogged ==
    \A t \in 1..(3 * MaxPipelines) : IsCompleted(t) ~> CompletionLogged(t)

(* The stages whose completion leads to a task of this stage *)
Previous(stage) ==
    CASE stage = "draft" -> {"research"}
      [] stage = "review" -> {"draft", "edit"}
      [] stage \in {"edit", "publish"} -> {"review"}
      [] OTHER -> {}

(* The story's latest task of these stages, 0 when it has none *)
LatestOf(s, stages) ==
    LET ts == StoryTasks(tasks, s, stages)
    IN IF ts = {} THEN 0
       ELSE CHOOSE t \in ts : \A u \in ts : tasks[u].created_at <= tasks[t].created_at

(* C19 as stated: the Chief creates a task for the next stage of a story
   only when the task.completed.<S> event of the story's latest task of the
   stage S before it is in the event log.  (RevisionSpec) *)
C19_AdvanceOnCompletedEvent ==
    [][\A t \in (Len(tasks) + 1)..Len(tasks') :
          LET latest == LatestOf(tasks'[t].story, Previous(tasks'[t].stage))
          IN Previous(tasks'[t].stage) # {} =>
                 /\ latest # 0
                 /\ TaskEvents(events, latest, CompletedTypes) # {}]_vars

Researched(s) == HasEvent(events, s, "task.completed.research")

DraftsOf(tk, s) == StoryTasks(tk, s, {"draft"})

(* C20: a run of the Chief's stage advancement on a story with a
   task.completed.research event leaves the story with exactly one draft
   task: the run creates it, pending, with priority 5 and the latest
   research output as input, when the story has none, and creates none when
   the story has one; nothing else creates a draft task.  (Spec) *)
C20_OneDraftTask ==
    [][\A s \in Stories :
          /\ (assign_research_to_draft /\ Researched(s)) =>
                 Cardinality(DraftsOf(tasks', s)) = 1
          /\ DraftsOf(tasks', s) # DraftsOf(tasks, s) =>
                 /\ assign_research_to_draft
                 /\ Researched(s)
                 /\ DraftsOf(tasks, s) = {}
                 /\ \A t \in DraftsOf(tasks', s) :
                       /\ tasks'[t].status = "pending"
                       /\ tasks'[t].priority = DraftPriority
                       /\ tasks'[t].input.research
                             = events[LastEvent(events, s, {"task.completed.research"})].output.content]_vars

(* A story has one draft task; a research task created after it has been
   completed and logged, and the Chief has run its advancement again since *)
C20_AdvancedTwice ==
    \E s \in Stories, d \in TaskIds, r \in TaskIds :
        /\ DraftsOf(tasks, s) = {d}
        /\ tasks[r].story = s
        /\ tasks[r].stage = "research"
        /\ tasks[r].created_at > tasks[d].created_at
        /\ TaskEvents(events, r, {"task.completed.research"}) # {}
        /\ Count(events, s, "task.completed.research") = 2
        /\ chief.pc \in {"drafts", "reviews", "recover"}

ArticlesOf(s) == {a \in 1..Len(articles) : articles[a].story = s}

(* C21 as stated: whatever the number of Chief sweeps after an approved
   review, the story has at most one Article row and at most one publish
   task, also when an article was created and the creation of the publish
   task failed.  (PublishSpec) *)
C21_OneArticleOnePublish ==
    \A s \in Stories :
        /\ Cardinality(ArticlesOf(s)) <= 1
        /\ Cardinality(StoryTasks(tasks, s, {"publish"})) <= 1

(* Review task t has completed with REJECT and its story has revisions
   left *)
RejectedUnderBound(t) ==
    /\ t \in TaskIds
    /\ tasks[t].stage = "review"
    /\ tasks[t].status = "completed"
    /\ tasks[t].output.decision = "REJECT"
    /\ Cardinality(Edits(tasks[t].story)) < MaxRevisions

EditFor(t) ==
    \E e \in TaskIds : tasks[e].stage = "edit" /\ tasks[e].input.feedback = t

(* RevisionInit holds six tasks: the review task of the second revision is
   task 7, or task 8 when the research task of a prompt is created first *)
NextReviews == {7, 8}

(* C22 as stated: when a review task completes with REJECT and the story
   has fewer than max_revisions edit tasks, the Chief eventually creates the
   edit task for it, also when another task of the story was created after
   the review task.  (PromptedSpec, the Chief's loop fair) *)
C22_RejectedGetsEdit ==
    \A t \in NextReviews : RejectedUnderBound(t) ~> EditFor(t)

PromptTasks(p) == {t \in TaskIds : tasks[t].input.human_prompt_id = p}

(* C23 as stated: a human prompt leads to exactly one priority-10 research
   task: no sweep creates a further task for a prompt that has one, and a
   prompt that has its task is no longer pending.  (Spec) *)
C23_OneTaskPerPrompt ==
    \A p \in 1..Len(prompts) :
        /\ Cardinality(PromptTasks(p)) <= 1
        /\ PromptTasks(p) # {} => prompts[p].status # "pending"
(* C24: a prompt's status only moves forward, pending -> processing ->
   answered: no step takes an answered prompt back to processing or pending,
   nor a processing prompt back to pending, also when two research workers
   handle tasks of the same story concurrently *)
StatusRank(status) ==
    IF status = "pending" THEN 0 ELSE IF status = "processing" THEN 1 ELSE 2

C24_StatusForward ==
    [][\A p \in 1..Len(prompts) :
          StatusRank(prompts'[p].status) >= StatusRank(prompts[p].status)]_vars

(* C25: an error raised while the Chief handles one story does not abort
   the sweep: after every step of the sweep the Chief is at the step that
   follows it (prompts, detections, research, drafts, reviews, recovery),
   and only the end of recovery starts the next sweep *)
Following(pc) ==
    CASE pc = "prompts" -> {"detections"}
      [] pc = "detections" -> {"research"}
      [] pc = "research" -> {"drafts"}
      [] pc = "drafts" -> {"reviews"}
      [] pc = "reviews" -> {"recover"}
      [] pc = "recover" -> {"reset", "prompts"}
      [] pc = "reset" -> {"reset", "prompts"}

C25_SweepNotAborted ==
    [][chief' # chief => chief'.pc \in Following(chief.pc)]_vars

(* C26: after stop() has been called on an agent and its in-flight task has
   finished, the status the agent's last heartbeat wrote is offline *)
Stopped(a) == ~agent[a].running /\ agent[a].pc \in {"start", "idle"}

C26_StoppedIsOffline ==
    \A a \in Reporters : Stopped(a) => agent[a].status = "offline"

(* C27: get_story_events returns a story's events in the order they were
   appended, ordered by (created_at, id), also when two events of the story
   carry the same created_at: every result the query may return lists the
   ids in ascending order *)
C27_AppendOrder ==
    \A s \in Stories : \A result \in get_story_events(s) :
        \A i, j \in 1..Len(result) : i < j => result[i] < result[j]

(* C28: no operation updates or deletes a persisted event: every step of
   the Chief, of an agent and of the Scout leaves every event appended so
   far as it is and only adds events at the end of the log *)
C28_AppendOnly ==
    [][/\ Len(events') >= Len(events)
       /\ \A i \in 1..Len(events) : events'[i] = events[i]]_vars

(* C28: the Scout, the Chief and a worker have each appended to the log of
   one story *)
C28_AllAppended ==
    \E s \in Pipelines :
        /\ HasEvent(events, s, "story.detected")
        /\ HasEvent(events, s, "story.created")
        /\ HasEvent(events, s, "task.completed.research")
        /\ HasEvent(events, s, "draft.completed")

(* C29: when a publisher has executed a publish task that the Chief created
   for an existing article, the task is completed and the story has an
   article.published event *)
Executed(t) == tasks[t].stage = "publish" /\ tasks[t].status \notin {"pending", "active"}

C29_PublishCompletes ==
    \A t \in TaskIds :
        Executed(t) /\ ArticlesOf(tasks[t].story) # {} =>
            /\ tasks[t].status = "completed"
            /\ HasEvent(events, tasks[t].story, "article.published")

(* C30: under fair scheduling of the Chief sweep and of one agent per role,
   every story admitted with story.created eventually reaches
   article.published or story.killed, unless a worker's task fails with an
   exception *)
Ended(s) == HasEvent(events, s, "article.published") \/ HasEvent(events, s, "story.killed")

Excepted(s) == \E type \in FailedTypes : HasEvent(events, s, type)

C30_Progress ==
    \A s \in Pipelines : HasEvent(events, s, "story.created") ~> (Ended(s) \/ Excepted(s))

(* C31: in every reachable state a task with status active has a non-null
   assigned_agent and a task with status pending has none *)
C31_AssignedIffActive ==
    \A t \in TaskIds :
        /\ tasks[t].status = "active" => tasks[t].assigned_agent # NoAgent
        /\ tasks[t].status = "pending" => tasks[t].assigned_agent = NoAgent

(* C31: a task that was claimed, stalled and was reset by the recovery is
   pending again while its first holder still works on it *)
C31_ResetWhileHeld ==
    \E t \in TaskIds : \E a \in Reporters :
        /\ tasks[t].status = "pending"
        /\ expired > 0
        /\ agent[a].task = t

(* C32: the recovery changes only tasks that are active and stalled at the
   moment they are reset (a task that completed or failed since the
   selection is not put back to pending) and appends no event *)
Recovers == chief.pc = "reset" /\ chief' # chief

C32_RecoverOnlyStalled ==
    [][Recovers =>
          /\ events' = events
          /\ \A t \in TaskIds : tasks'[t] # tasks[t] => t \in StalledRows]_vars

(* C33: admission takes the score and the research task's detection_data
   from the most recent story.detected event the story had when it was
   admitted, not from an earlier one *)
DetectionsBefore(s, c) ==
    {i \in 1..Len(events) : /\ events[i].story = s
                            /\ events[i].type = "story.detected"
                            /\ events[i].at < events[c].at}

MostRecent(idx) == CHOOSE i \in idx : \A j \in idx : events[j].at <= events[i].at

C33_LatestDetection ==
    \A c \in 1..Len(events) :
        events[c].type = "story.created" =>
            LET d == MostRecent(DetectionsBefore(events[c].story, c))
            IN /\ events[c].score = events[d].score
               /\ \A t \in StoryTasks(tasks, events[c].story, {"research"}) :
                      tasks[t].input.detection = d

(* C34: every story.detected event with is_duplicate = false that the
   Scout emits for a newly minted story id comes with a memory row for
   that story id *)
Remembered(s) == \E m \in 1..Len(memory) : memory[m].story = s

C34_NewStoryRemembered ==
    \A i \in 1..Len(events) :
        events[i].type = "story.detected" /\ ~events[i].is_duplicate => Remembered(events[i].story)

(* C35: only the agent recorded as assigned_agent can finish a task: when a
   stalled task has been recovered and claimed again by another agent, a
   late complete or fail by its first holder changes no task row *)
Finishes(a) == agent[a].pc \in {"complete", "fail"} /\ agent'[a].pc # agent[a].pc

HeldByOther(a) == tasks[agent[a].task].assigned_agent \notin {a, NoAgent}

C35_OnlyAssigneeFinishes ==
    [][\A a \in Reporters : Finishes(a) /\ HeldByOther(a) => tasks' = tasks]_vars

(* C36: the Chief appends story.killed only for a story that has used its
   revisions, whose most recently created completed review is a REJECT and
   which has no pending or active task: a rejected review that already led
   to an edit task does not kill the story while that revision is still
   being edited or reviewed *)
Kills(s) == Count(events', s, "story.killed") > Count(events, s, "story.killed")

Open(tk, s) ==
    {t \in StoryTasks(tk, s, {"research", "draft", "edit", "review", "publish"}) :
        tk[t].status \in {"pending", "active"}}

LastReview(tk, s) ==
    LET done == {t \in StoryTasks(tk, s, {"review"}) : tk[t].status = "completed"}
    IN IF done = {} THEN 0
       ELSE CHOOSE t \in done : \A u \in done : tk[u].created_at <= tk[t].created_at

C36_KilledOnlyAtRest ==
    [][\A s \in Stories :
          Kills(s) =>
             /\ Cardinality(StoryTasks(tasks', s, {"edit"})) >= MaxRevisions
             /\ LastReview(tasks', s) # 0
             /\ tasks'[LastReview(tasks', s)].output.decision = "REJECT"
             /\ Open(tasks', s) = {}]_vars

(* C37: story.killed is appended at most once per story, however many
   sweeps run after the final rejected review *)
C37_KilledOnce == \A s \in Stories : Count(events, s, "story.killed") <= 1

(* C38: story.rejected is appended at most once per story, however many
   sweeps run after a low-score detection *)
C38_RejectedOnce == \A s \in Stories : Count(events, s, "story.rejected") <= 1

(* C39: every task belongs to a story that has a story.created event: a
   story that is not admitted yet, or was rejected for its low score, gets
   no task through human-prompt processing *)
C39_TasksOfAdmittedStories ==
    \A t \in TaskIds : HasEvent(events, tasks[t].story, "story.created")

(* C40: the number of review tasks ever created for one story is at most
   max_revisions + 1, one per draft or revision, also when review tasks
   fail *)
C40_ReviewsBounded ==
    \A s \in Stories : Cardinality(StoryTasks(tasks, s, {"review"})) <= MaxRevisions + 1

====
